---- MODULE Spec2Model ----
(***************************************************************************)
(* GeoPix Extractor: the batch orchestrator of App.tsx (queue, results,    *)
(* status, progress and the asynchronous runs of handleProcessQueue) and   *)
(* the extraction client processImageBatch of services/geminiService.ts.   *)
(*                                                                         *)
(* JavaScript scheduling: a user event and the arrival of an awaited       *)
(* result (file encoding, oracle response) are tasks of the event loop;    *)
(* the continuation of an await on a settled promise is a microtask and    *)
(* runs before the next task.  A run whose promise has settled (pc         *)
(* "resolved" or "rejected") therefore continues before anything else.     *)
(* A user event finds the handlers of the latest render, so the queue and  *)
(* the results a handler closes over are the current ones.                 *)
(***************************************************************************)
EXTENDS Integers, Sequences, FiniteSets

\* ----- bounds of the model ------------------------------------------------
MaxFiles == 23
MaxRemoves == 2
MaxRemovePos == 2
MaxFaults == 2

\* ----- program constants --------------------------------------------------
BATCH_SIZE == 10

IDLE == "IDLE"
PROCESSING == "PROCESSING"
COMPLETED == "COMPLETED"
ERROR == "ERROR"
ProcessingStatus == {IDLE, PROCESSING, COMPLETED, ERROR}

\* numbers of files the user hands over in one selection, drop or paste
AddSizes == {BATCH_SIZE + 1, BATCH_SIZE + 2}

VARIABLES
    apiKey,     \* process.env.API_KEY is set (fixed by the build)
    queue,      \* useState<QueueItem[]>
    results,    \* useState<ProcessedImage[]>
    status,     \* useState<ProcessingStatus>
    progress,   \* useState<{processed, total}>
    runs,       \* the invocations of handleProcessQueue that have not returned
    nextId,     \* number of files handed over so far (ids and previews are fresh)
    revoked,    \* preview -> number of URL.revokeObjectURL calls on it
    snapshots,  \* history: the snapshots handleProcessQueue has taken, oldest first
    removes,    \* number of items handleRemoveFromQueue removed (bounded by MaxRemoves)
    faults,     \* number of failed encodings and of oracle responses other than a
                \* well-formed array (bounded by MaxFaults)
    lastCall,   \* history: the handler the last step invoked and its argument
    data,       \* the rows handed to ResultsTable and MapView (their data prop)
    table,      \* the body rows ResultsTable has rendered
    clipboard,  \* the text handleCopy has written to the clipboard
    markers     \* the markers MapView has placed

appVars == <<apiKey, queue, results, status, progress, runs, nextId, revoked, snapshots, removes, faults, lastCall>>

viewVars == <<data, table, clipboard, markers>>

vars == <<appVars, viewVars>>

\* ----- helpers --------------------------------------------------------------
Min(a, b) == IF a < b THEN a ELSE b

Range(s) == {s[k] : k \in 1..Len(s)}

\* Array.prototype.slice(from, to) with 0-based from and exclusive to
Slice(s, from, to) == SubSeq(s, from + 1, Min(to, Len(s)))

\* a number of the oracle's JSON is <<n>>, JSON null is <<>>
Num(n) == <<n>>
Null == <<>>

\* x || d for a JSON number or null
OrNum(x, d) == IF x = Null \/ x[1] = 0 THEN d ELSE x[1]

\* s || d for a string
OrStr(s, d) == IF s = "" THEN d ELSE s

\* ----- QueueItem ------------------------------------------------------------
File(n) == [name |-> n]

QueueItem(n) == [file |-> File(n), id |-> n, preview |-> n]

NewItems(first, n) == [k \in 1..n |-> QueueItem(first + k)]

\* ----- the chunking loop of handleProcessQueue ------------------------------
\* the slice taken with the batch size as its end: slice(i, BATCH_SIZE)
RECURSIVE ChunksFrom_EndNotOffset(_, _)
ChunksFrom_EndNotOffset(items, i) ==
    IF i < Len(items)
    THEN <<Slice(items, i, BATCH_SIZE)>> \o ChunksFrom_EndNotOffset(items, i + BATCH_SIZE)
    ELSE <<>>

RECURSIVE ChunksFrom(_, _)
ChunksFrom(items, i) ==
    IF i < Len(items)
    THEN <<Slice(items, i, i + BATCH_SIZE)>> \o ChunksFrom(items, i + BATCH_SIZE)
    ELSE <<>>

Chunks(items) == ChunksFrom(items, 0)

\* ----- the extraction client ------------------------------------------------
CouldNotProcess ==
    [address |-> "Could not process", latitude |-> Num(0), longitude |-> Num(0),
     foundCoordinates |-> FALSE, date |-> "", time |-> ""]

ErrorProcessing ==
    [address |-> "Error processing image", latitude |-> Num(0), longitude |-> Num(0),
     foundCoordinates |-> FALSE, date |-> "", time |-> ""]

\* the catch block returning no record at all
CatchRecords_Empty(files) == <<>>

FallbackRecords(files) == [k \in 1..Len(files) |-> CouldNotProcess]

CatchRecords(files) == [k \in 1..Len(files) |-> ErrorProcessing]

\* what the oracle reads off one image
Extracted(file) ==
    [address |-> "addr", latitude |-> Num(file.name), longitude |-> Num(0 - file.name),
     foundCoordinates |-> TRUE, date |-> "2024-01-01", time |-> "10:00"]

\* a record with an empty description and no position
Undetermined ==
    [address |-> "", latitude |-> Null, longitude |-> Null,
     foundCoordinates |-> FALSE, date |-> "", time |-> ""]

WellFormed(files) ==
    [kind |-> "text", text |-> "json", isArray |-> TRUE,
     elems |-> [k \in 1..Len(files) |-> Extracted(files[k])]]

\* the outcomes of ai.models.generateContent for a request with these files
Responses(files) ==
    LET full == [k \in 1..Len(files) |-> Extracted(files[k])]
        arr(e) == [kind |-> "text", text |-> "json", isArray |-> TRUE, elems |-> e]
    IN  { WellFormed(files),
          arr(SubSeq(full, 1, Len(files) - 1)),
          arr(Append(full, Undetermined)),
          arr(<<>>),
          arr([k \in 1..Len(files) |-> Undetermined]),
          [kind |-> "text", text |-> "json", isArray |-> FALSE, elems |-> <<>>],
          [kind |-> "text", text |-> "", isArray |-> FALSE, elems |-> <<>>],
          [kind |-> "text", text |-> "garbage", isArray |-> FALSE, elems |-> <<>>],
          [kind |-> "throw", text |-> "", isArray |-> FALSE, elems |-> <<>>] }

\* no response yet
NoResponse == [kind |-> "none", text |-> "", isArray |-> FALSE, elems |-> <<>>]

\* the value processImageBatch resolves with once generateContent has settled
ClientResult(files, response) ==
    IF response.kind = "throw" THEN CatchRecords(files)
    ELSE IF response.text = "" THEN FallbackRecords(files)
    ELSE IF response.text = "garbage" THEN CatchRecords(files)
    ELSE IF response.isArray THEN response.elems
    ELSE FallbackRecords(files)

\* the credential check left out
ClientEntry_NoCheck == "encode"

\* the synchronous start of processImageBatch: the credential check
ClientEntry == IF apiKey THEN "encode" ELSE "rejected"

\* ----- the orchestrator -----------------------------------------------------
\* the mapping made over the returned records instead of the chunk's items
MappedResults_PerRecord(chunkItems, batchResults) ==
    [index \in 1..Min(Len(chunkItems), Len(batchResults)) |->
        [originalFile |-> chunkItems[index].file,
         fileName |-> chunkItems[index].file.name,
         previewUrl |-> chunkItems[index].preview,
         address |-> OrStr(batchResults[index].address, "Processing Error"),
         latitude |-> OrNum(batchResults[index].latitude, 0),
         longitude |-> OrNum(batchResults[index].longitude, 0),
         date |-> OrStr(batchResults[index].date, ""),
         time |-> OrStr(batchResults[index].time, "")]]

\* chunkItems.map((item, index) => ...)
MappedResults(chunkItems, batchResults) ==
    [index \in 1..Len(chunkItems) |->
        LET item == chunkItems[index]
            has == index <= Len(batchResults)
        IN  [originalFile |-> item.file,
             fileName |-> item.file.name,
             previewUrl |-> item.preview,
             address |-> IF has THEN OrStr(batchResults[index].address, "Processing Error")
                         ELSE "Processing Error",
             latitude |-> IF has THEN OrNum(batchResults[index].latitude, 0) ELSE 0,
             longitude |-> IF has THEN OrNum(batchResults[index].longitude, 0) ELSE 0,
             date |-> IF has THEN OrStr(batchResults[index].date, "") ELSE "",
             time |-> IF has THEN OrStr(batchResults[index].time, "") ELSE ""]]

\* a run: the local variables of one invocation of handleProcessQueue; i is
\* the 0-based index of the chunk in progress
NewRun(items) ==
    [itemsToProcess |-> items, chunks |-> Chunks(items), i |-> 0,
     processedCount |-> 0, pc |-> ClientEntry, response |-> NoResponse,
     batchResults |-> <<>>]

ChunkItems(r) == r.chunks[r.i + 1]

ChunkFiles(r) == [k \in 1..Len(ChunkItems(r)) |-> ChunkItems(r)[k].file]

\* the count advanced by the batch size instead of the chunk's length
ProcessedAfter_BatchSize(r) == r.processedCount + BATCH_SIZE

\* processedCount += chunkItems.length
ProcessedAfter(r) == r.processedCount + Len(ChunkItems(r))

\* no continuation is pending: the event loop takes its next task
Quiescent == \A r \in runs : r.pc \in {"encode", "request"}

\* the input area rendered whatever the status
InputShown_Always == TRUE

\* the input area (dropzone, queue, start button) is rendered
InputShown == status # PROCESSING

\* the start button rendered for an empty queue and the guard left out
CanStart_EmptyQueue == InputShown

\* the start button is rendered and handleProcessQueue passes its guard
CanStart == InputShown /\ Len(queue) # 0

\* the results area with its Clear All button is rendered
ResultsShown == Len(results) > 0

\* prev.find(i => i.id === id): the items with that id
Found(q, id) == {it \in Range(q) : it.id = id}

\* the filter with its test inverted: only the item with that id is kept
Removed_Inverted(q, id) == SelectSeq(q, LAMBDA it : it.id = id)

\* the filter keeping every item: the released item stays in the queue
Removed_Nothing(q, id) == q

\* prev.filter(i => i.id !== id)
Removed(q, id) == SelectSeq(q, LAMBDA it : it.id # id)

\* the loop over the queue starting at its second item
QueuePreviews_SkipFirst(q) == {q[k].preview : k \in 2..Len(q)}

\* the previews queue.forEach / results.forEach hands to URL.revokeObjectURL
QueuePreviews(q) == {q[k].preview : k \in 1..Len(q)}

\* the loop over results left out: nothing is released
ResultPreviews_None(rs) == {}

ResultPreviews(rs) == {rs[k].previewUrl : k \in 1..Len(rs)}

\* the total read from the queue as it is when the chunk is merged
RunTotal_CurrentQueue(r) == Len(queue)

\* total of the progress a run reports: itemsToProcess.length
RunTotal(r) == Len(r.itemsToProcess)

\* the ids handleRemoveFromQueue is called with: those of the first queue
\* items and one id that no item has
RemoveArgs == {queue[k].id : k \in 1..Min(Len(queue), MaxRemovePos)} \cup {nextId + 1}

Call(op, id) == [op |-> op, id |-> id]

Revoke(previews) == [p \in DOMAIN revoked |-> IF p \in previews THEN revoked[p] + 1 ELSE revoked[p]]

Init ==
    /\ apiKey \in BOOLEAN
    /\ queue = <<>>
    /\ results = <<>>
    /\ status = IDLE
    /\ progress = [processed |-> 0, total |-> 0]
    /\ runs = {}
    /\ nextId = 0
    /\ revoked = [p \in 1..MaxFiles |-> 0]
    /\ snapshots = <<>>
    /\ removes = 0
    /\ faults = 0
    /\ lastCall = Call("init", 0)
    /\ data = <<>>
    /\ table = <<>>
    /\ clipboard = <<>>
    /\ markers = <<>>

handleFilesSelected(n) ==
    /\ Quiescent
    /\ InputShown
    /\ nextId + n <= MaxFiles
    /\ queue' = queue \o NewItems(nextId, n)
    /\ nextId' = nextId + n
    /\ lastCall' = Call("handleFilesSelected", 0)
    /\ UNCHANGED <<viewVars, apiKey, results, status, progress, runs, revoked, snapshots, removes, faults>>

handleRemoveFromQueue(id) ==
    /\ Quiescent
    /\ InputShown
    /\ id \in RemoveArgs
    /\ IF Found(queue, id) # {}
       THEN /\ removes < MaxRemoves
            /\ revoked' = Revoke({(CHOOSE it \in Found(queue, id) : TRUE).preview})
            /\ removes' = removes + 1
       ELSE UNCHANGED <<revoked, removes>>
    /\ queue' = Removed(queue, id)
    /\ lastCall' = Call("handleRemoveFromQueue", id)
    /\ UNCHANGED <<viewVars, apiKey, results, status, progress, runs, nextId, snapshots, faults>>

handleClearQueue ==
    /\ Quiescent
    /\ InputShown
    /\ Len(queue) > 0
    /\ revoked' = Revoke(QueuePreviews(queue))
    /\ queue' = <<>>
    /\ lastCall' = Call("handleClearQueue", 0)
    /\ UNCHANGED <<viewVars, apiKey, results, status, progress, runs, nextId, snapshots, removes, faults>>

\* the start button is rendered only for a non-empty queue; the handler's own
\* guard returns at once when it is called with an empty one
handleProcessQueue ==
    /\ Quiescent
    /\ InputShown
    /\ lastCall' = Call("handleProcessQueue", 0)
    /\ IF CanStart
       THEN /\ status' = PROCESSING
            /\ progress' = [processed |-> 0, total |-> Len(queue)]
            /\ results' = <<>>
            /\ queue' = <<>>
            /\ runs' = runs \cup {NewRun(queue)}
            /\ snapshots' = Append(snapshots, queue)
       ELSE UNCHANGED <<status, progress, results, queue, runs, snapshots>>
    /\ UNCHANGED <<viewVars, apiKey, nextId, revoked, removes, faults>>

handleClearResults ==
    /\ Quiescent
    /\ ResultsShown
    /\ revoked' = Revoke(ResultPreviews(results))
    /\ results' = <<>>
    /\ status' = IDLE
    /\ progress' = [processed |-> 0, total |-> 0]
    /\ lastCall' = Call("handleClearResults", 0)
    /\ UNCHANGED <<viewVars, apiKey, queue, runs, nextId, snapshots, removes, faults>>

\* Promise.all(files.map(fileToPart)) resolves: generateContent is called
EncodeDone(r) ==
    /\ Quiescent
    /\ r.pc = "encode"
    /\ runs' = (runs \ {r}) \cup {[r EXCEPT !.pc = "request"]}
    /\ lastCall' = Call("await", 0)
    /\ UNCHANGED <<viewVars, apiKey, queue, results, status, progress, nextId, revoked, snapshots, removes, faults>>

\* a FileReader reports an error: Promise.all rejects, outside the try block
EncodeFail(r) ==
    /\ Quiescent
    /\ r.pc = "encode"
    /\ faults < MaxFaults
    /\ faults' = faults + 1
    /\ runs' = (runs \ {r}) \cup {[r EXCEPT !.pc = "rejected"]}
    /\ lastCall' = Call("await", 0)
    /\ UNCHANGED <<viewVars, apiKey, queue, results, status, progress, nextId, revoked, snapshots, removes>>

\* generateContent settles and processImageBatch resolves
OracleResponds(r, response) ==
    /\ Quiescent
    /\ r.pc = "request"
    /\ IF response = WellFormed(ChunkFiles(r))
       THEN faults' = faults
       ELSE faults < MaxFaults /\ faults' = faults + 1
    /\ runs' = (runs \ {r}) \cup
               {[r EXCEPT !.pc = "resolved",
                          !.response = response,
                          !.batchResults = ClientResult(ChunkFiles(r), response)]}
    /\ lastCall' = Call("await", 0)
    /\ UNCHANGED <<viewVars, apiKey, queue, results, status, progress, nextId, revoked, snapshots, removes>>

\* the run continues after await processImageBatch(chunkFiles)
ChunkMerged(r) ==
    /\ r.pc = "resolved"
    /\ LET mappedResults == MappedResults(ChunkItems(r), r.batchResults)
           processedCount == ProcessedAfter(r)
       IN  /\ results' = results \o mappedResults
           /\ progress' = [processed |-> processedCount, total |-> RunTotal(r)]
           /\ IF r.i + 1 < Len(r.chunks)
              THEN /\ runs' = (runs \ {r}) \cup
                              {[r EXCEPT !.i = r.i + 1,
                                         !.processedCount = processedCount,
                                         !.pc = ClientEntry,
                                         !.response = NoResponse,
                                         !.batchResults = <<>>]}
                   /\ UNCHANGED status
              ELSE /\ runs' = runs \ {r}
                   /\ status' = COMPLETED
    /\ lastCall' = Call("await", 0)
    /\ UNCHANGED <<viewVars, apiKey, queue, nextId, revoked, snapshots, removes, faults>>

\* the catch block undoing the run: results emptied on an error
RunCaught_Rollback(r) ==
    /\ r.pc = "rejected"
    /\ status' = ERROR
    /\ results' = <<>>
    /\ runs' = runs \ {r}
    /\ lastCall' = Call("await", 0)
    /\ UNCHANGED <<viewVars, apiKey, queue, progress, nextId, revoked, snapshots, removes, faults>>

\* the catch block without its setStatus: the run ends with the status kept
RunCaught_StatusKept(r) ==
    /\ r.pc = "rejected"
    /\ runs' = runs \ {r}
    /\ lastCall' = Call("await", 0)
    /\ UNCHANGED <<viewVars, apiKey, queue, results, status, progress, nextId, revoked, snapshots, removes, faults>>

\* the catch block of handleProcessQueue
RunCaught(r) ==
    /\ r.pc = "rejected"
    /\ status' = ERROR
    /\ runs' = runs \ {r}
    /\ lastCall' = Call("await", 0)
    /\ UNCHANGED <<viewVars, apiKey, queue, results, progress, nextId, revoked, snapshots, removes, faults>>

Next ==
    \/ \E n \in AddSizes : handleFilesSelected(n)
    \/ \E id \in 1..(MaxFiles + 1) : handleRemoveFromQueue(id)
    \/ handleClearQueue
    \/ handleProcessQueue
    \/ handleClearResults
    \/ \E r \in runs : EncodeDone(r)
    \/ \E r \in runs : EncodeFail(r)
    \/ \E r \in runs : \E response \in Responses(ChunkFiles(r)) : OracleResponds(r, response)
    \/ \E r \in runs : ChunkMerged(r)
    \/ \E r \in runs : RunCaught(r)

Spec == Init /\ [][Next]_vars

\* every awaited promise settles (the encoding and the oracle's answer arrive)
\* and the continuation of a settled await runs
Fairness ==
    /\ WF_vars(\E r \in runs : EncodeDone(r) \/ EncodeFail(r))
    /\ WF_vars(\E r \in runs : \E response \in Responses(ChunkFiles(r)) : OracleResponds(r, response))
    /\ WF_vars(\E r \in runs : ChunkMerged(r))
    /\ WF_vars(\E r \in runs : RunCaught(r))

SpecLive == Spec /\ Fairness

TypeOK ==
    /\ apiKey \in BOOLEAN
    /\ status \in ProcessingStatus
    /\ progress.processed \in Nat /\ progress.total \in Nat
    /\ nextId \in 0..MaxFiles

\* ----- ResultsTable and MapView ---------------------------------------------
\* The components are functions of their data prop.  SpecView hands them rows
\* of every content: the address, date and time of a row are strings the
\* oracle wrote, the file name is the user's.
MaxRows == 2

\* a string is the sequence of its characters
TAB == "\t"
NL == "\n"
CR == "\r"
SP == " "
\* the degree sign
DEGREE == "deg"
DASHES == <<"-", "-">>

Digits == <<"0", "1", "2", "3", "4", "5", "6", "7", "8", "9">>

IsDigit(c) == c \in Range(Digits)

DigitValue(c) == (CHOOSE k \in 1..Len(Digits) : Digits[k] = c) - 1

\* s || d for a string given by its characters
OrText(s, d) == IF s = <<>> THEN d ELSE s

\* the characters of the model in the order of the collation; with sensitivity
\* 'base' a capital compares equal to its small letter
Collation == <<TAB, NL, CR, SP>> \o Digits \o <<"a", "b", "c", "d", "t", "x", "y">>

BaseLetter(c) == IF c = "A" THEN "a" ELSE c

Rank(c) == CHOOSE k \in 1..Len(Collation) : Collation[k] = BaseLetter(c)

\* the length of the run of digits a string starts with
RECURSIVE DigitRun(_)
DigitRun(s) == IF s # <<>> /\ IsDigit(s[1]) THEN 1 + DigitRun(Tail(s)) ELSE 0

\* the number written by the first n characters of s
RECURSIVE NumberOf(_, _)
NumberOf(s, n) == IF n = 0 THEN 0 ELSE 10 * NumberOf(s, n - 1) + DigitValue(s[n])

\* a.localeCompare(b, undefined, {numeric: true, sensitivity: 'base'}):
\* character by character, runs of digits compared by their value
RECURSIVE localeCompare(_, _)
localeCompare(a, b) ==
    IF a = <<>> THEN (IF b = <<>> THEN 0 ELSE 0 - 1)
    ELSE IF b = <<>> THEN 1
    ELSE IF IsDigit(a[1]) /\ IsDigit(b[1])
    THEN LET na == DigitRun(a)
             nb == DigitRun(b)
             va == NumberOf(a, na)
             vb == NumberOf(b, nb)
         IN  IF va < vb THEN 0 - 1
             ELSE IF va > vb THEN 1
             ELSE localeCompare(SubSeq(a, na + 1, Len(a)), SubSeq(b, nb + 1, Len(b)))
    ELSE IF Rank(a[1]) < Rank(b[1]) THEN 0 - 1
    ELSE IF Rank(a[1]) > Rank(b[1]) THEN 1
    ELSE localeCompare(Tail(a), Tail(b))

\* one step of the stable sort: the row goes behind the rows that do not
\* compare greater than it
SortInsert(sorted, item) ==
    LET n == Cardinality({k \in 1..Len(sorted) :
                             localeCompare(sorted[k].fileName, item.fileName) <= 0})
    IN  SubSeq(sorted, 1, n) \o <<item>> \o SubSeq(sorted, n + 1, Len(sorted))

RECURSIVE SortByName(_)
SortByName(rows) ==
    IF rows = <<>> THEN <<>>
    ELSE SortInsert(SortByName(SubSeq(rows, 1, Len(rows) - 1)), rows[Len(rows)])

\* [...data].sort(...)
sortedData == SortByName(data)

Abs(n) == IF n < 0 THEN 0 - n ELSE n

RECURSIVE DigitsOf(_)
DigitsOf(n) ==
    IF n < 10 THEN <<Digits[n + 1]>> ELSE Append(DigitsOf(n \div 10), Digits[(n % 10) + 1])

Pow10(k) == IF k = 0 THEN 1 ELSE IF k = 1 THEN 10 ELSE IF k = 2 THEN 100
            ELSE IF k = 3 THEN 1000 ELSE IF k = 4 THEN 10000 ELSE 100000

\* absoluteValue.toFixed(6) for a value in units of 10^-7 degrees: rounded to
\* six decimals, written with all six
toFixed6(a) ==
    LET micro == (a + 5) \div 10
    IN  DigitsOf(micro \div 1000000) \o <<".">> \o
        [k \in 1..6 |-> Digits[((micro \div Pow10(6 - k)) % 10) + 1]]

\* the check for the placeholder 0 left out: only null gives '--'
formatCoordinate_NullOnly(value, type) ==
    IF value = Null THEN DASHES
    ELSE toFixed6(Abs(value[1])) \o
         <<DEGREE, SP, IF type = "lat" THEN (IF value[1] >= 0 THEN "N" ELSE "S")
                       ELSE (IF value[1] >= 0 THEN "E" ELSE "W")>>

formatCoordinate(value, type) ==
    IF value = Null \/ value[1] = 0 THEN DASHES
    ELSE toFixed6(Abs(value[1])) \o
         <<DEGREE, SP, IF type = "lat" THEN (IF value[1] >= 0 THEN "N" ELSE "S")
                       ELSE (IF value[1] >= 0 THEN "E" ELSE "W")>>

\* replace(/[\t\n\r]/g, ' ')
ReplaceControls(s) == [k \in 1..Len(s) |-> IF s[k] \in {TAB, NL, CR} THEN SP ELSE s[k]]

WhiteSpace == {SP, TAB, NL, CR}

RECURSIVE TrimStart(_)
TrimStart(s) == IF s # <<>> /\ s[1] \in WhiteSpace THEN TrimStart(Tail(s)) ELSE s

RECURSIVE TrimEnd(_)
TrimEnd(s) ==
    IF s # <<>> /\ s[Len(s)] \in WhiteSpace THEN TrimEnd(SubSeq(s, 1, Len(s) - 1)) ELSE s

Trim(s) == TrimEnd(TrimStart(s))

cleanAddress(item) == Trim(ReplaceControls(OrText(item.address, <<>>)))

\* Array.prototype.join
RECURSIVE Join(_, _)
Join(cells, sep) ==
    IF cells = <<>> THEN <<>>
    ELSE IF Len(cells) = 1 THEN cells[1]
    ELSE cells[1] \o <<sep>> \o Join(Tail(cells), sep)

\* the header cells, each kept as one symbol
headers == << <<"File Name">>, <<"Address">>, <<"Latitude">>, <<"Longitude">>, <<"Date">>, <<"Time">> >>

\* the array handleCopy joins for one row
TsvCells(item) ==
    LET lat == formatCoordinate(item.latitude, "lat")
        lng == formatCoordinate(item.longitude, "lng")
    IN  <<item.fileName,
          cleanAddress(item),
          IF lat = DASHES THEN <<>> ELSE lat,
          IF lng = DASHES THEN <<>> ELSE lng,
          OrText(item.date, <<>>),
          OrText(item.time, <<>>)>>

tsvRows == [k \in 1..Len(sortedData) |-> Join(TsvCells(sortedData[k]), TAB)]

tsv == Join(<<Join(headers, TAB)>> \o tsvRows, NL)

\* the cells of one body row of the table
TableCells(item) ==
    [fileName |-> item.fileName,
     address |-> item.address,
     latitude |-> formatCoordinate(item.latitude, "lat"),
     longitude |-> formatCoordinate(item.longitude, "lng"),
     date |-> OrText(item.date, DASHES),
     time |-> OrText(item.time, DASHES)]

\* MapView's filter
validData ==
    SelectSeq(data, LAMBDA item : /\ item.latitude # Null
                                  /\ item.longitude # Null
                                  /\ item.latitude[1] # 0
                                  /\ item.longitude[1] # 0)

Marker(item) ==
    [position |-> <<item.latitude[1], item.longitude[1]>>, fileName |-> item.fileName]

\* the rows of SpecView: file names in numeric order, with a capital and with
\* a tab; addresses clean and with blanks and a newline; coordinates null, 0
\* and of each hemisphere; dates and times absent, plain and with a newline
NamedAddresses == { << <<"a", "2">>, <<"x">> >>,
                    << <<"A", "1", "0">>, <<SP, "x", NL, "y">> >>,
                    << <<"b", TAB, "c">>, <<"x">> >> }

Readings == { <<Null, Num(1068000004), <<>>, <<>> >>,
              <<Num(0 - 61234565), Num(0), <<"d">>, <<"t">> >>,
              <<Num(61234565), Num(0 - 1068000004), <<"d">>, <<"t">> >>,
              <<Num(0 - 61234565), Num(1068000004), <<"d", NL>>, <<"t">> >> }

Rows ==
    { [fileName |-> na[1], address |-> na[2], latitude |-> rd[1], longitude |-> rd[2],
       date |-> rd[3], time |-> rd[4]] : na \in NamedAddresses, rd \in Readings }

InitView ==
    /\ apiKey = TRUE
    /\ queue = <<>>
    /\ results = <<>>
    /\ status = IDLE
    /\ progress = [processed |-> 0, total |-> 0]
    /\ runs = {}
    /\ nextId = 0
    /\ revoked = [p \in 1..MaxFiles |-> 0]
    /\ snapshots = <<>>
    /\ removes = 0
    /\ faults = 0
    /\ lastCall = Call("init", 0)
    /\ data \in UNION {[1..n -> Rows] : n \in 0..MaxRows}
    /\ table = <<>>
    /\ clipboard = <<>>
    /\ markers = <<>>

\* ResultsTable renders: nothing for no rows, else one body row per row
ResultsTable ==
    /\ table' = [k \in 1..Len(sortedData) |-> TableCells(sortedData[k])]
    /\ UNCHANGED <<appVars, data, clipboard, markers>>

\* the Copy Table button exists once the table is rendered with rows
handleCopy ==
    /\ Len(sortedData) # 0
    /\ clipboard' = tsv
    /\ UNCHANGED <<appVars, data, table, markers>>

\* MapView renders: nothing without valid rows, else one marker per valid row
MapView ==
    /\ markers' = [k \in 1..Len(validData) |-> Marker(validData[k])]
    /\ UNCHANGED <<appVars, data, table, clipboard>>

NextView == ResultsTable \/ handleCopy \/ MapView

SpecView == InitView /\ [][NextView]_vars

\* ----- properties -----------------------------------------------------------
Ceil(n, m) == (n + m - 1) \div m

RECURSIVE Flatten(_)
Flatten(ss) == IF ss = <<>> THEN <<>> ELSE Head(ss) \o Flatten(Tail(ss))

\* the run whose continuation is pending, if any
Pending(r) == r \in runs /\ r.pc \in {"resolved", "rejected"}

\* a JSON number or null equals the number n
NumEq(x, n) == x # Null /\ x[1] = n

\* C1: whenever processImageBatch returns for a batch of k files, it returns
\* exactly k records, whatever the oracle answered.
C1_ReturnsOnePerFile ==
    \A r \in runs : r.pc = "resolved" => Len(r.batchResults) = Len(ChunkFiles(r))

\* C2: processImageBatch rejects only when the credential is missing; a failed
\* encoding, transport, parse or validation never reaches the caller.
C2_ThrowsOnlyWithoutCredential ==
    \A r \in runs : r.pc = "rejected" => ~apiKey

\* C3 (as claimed): status changes to Processing only from Idle and only when
\* the queue is non-empty.
C3_ProcessingOnlyFromIdle ==
    [][(status' = PROCESSING /\ status # PROCESSING) => (status = IDLE /\ Len(queue) > 0)]_vars

\* C3 (amended): status changes to Processing only by a start of
\* handleProcessQueue on a non-empty queue, which takes the queue as the
\* snapshot of a new run and empties it; the start is possible from Idle,
\* Completed and Error alike, and status is never set to Processing otherwise.
C3_ProcessingOnlyByStart ==
    [][(status' = PROCESSING /\ status # PROCESSING) =>
          /\ Len(queue) > 0
          /\ queue' = <<>>
          /\ snapshots' = Append(snapshots, queue)
          /\ \E r \in runs' \ runs : r.itemsToProcess = queue /\ r.i = 0]_vars

\* C3 witness: a second run was started straight from Completed or Error (no
\* preview was ever released, so handleClearResults never ran) and is under way
C3_StartedWithoutClear ==
    /\ status = PROCESSING
    /\ Len(snapshots) = 2
    /\ \A p \in DOMAIN revoked : revoked[p] = 0
    /\ runs # {}
    /\ \A r \in runs : r.itemsToProcess = snapshots[2]

\* C4: status changes to Idle only from Completed or Error, and while status
\* is Processing only the run itself changes status.
C4_IdleOnlyAfterRun ==
    [][/\ (status' = IDLE /\ status # IDLE) => status \in {COMPLETED, ERROR}
       /\ (status = PROCESSING /\ status' # status) => \E r \in runs : Pending(r)]_vars

\* C5: at most one run of handleProcessQueue, hence at most one extraction
\* request, is in flight at any time.
C5_OneRunInFlight ==
    Cardinality(runs) <= 1

\* C6: the step that takes a run past chunk i appends that chunk's entries
\* to results and has not yet issued the request for chunk i+1; and results
\* holds the entries of one run only, in the order of its snapshot.
C6_ChunkOrderNoInterleaving ==
    /\ [][\A r \in runs : r.pc = "resolved" =>
             /\ Len(results') = Len(results) + Len(ChunkItems(r))
             /\ \A j \in 1..Len(ChunkItems(r)) :
                   results'[Len(results) + j].previewUrl = ChunkItems(r)[j].preview
             /\ \A q \in runs' : q.itemsToProcess = r.itemsToProcess =>
                   q.i = r.i + 1 /\ q.pc # "request"]_vars
    /\ [](\/ results = <<>>
          \/ \E n \in 1..Len(snapshots) :
                \A k \in 1..Len(results) :
                   \E j \in 1..Len(snapshots[n]) :
                      snapshots[n][j].preview = results[k].previewUrl)
    /\ [](\A k \in 1..(Len(results) - 1) :
             results[k].previewUrl < results[k + 1].previewUrl)

\* the chunks are contiguous slices of sizes 1..BATCH_SIZE, all but the last
\* of size BATCH_SIZE, Ceil(N / BATCH_SIZE) of them, and together the items
ChunkingOK(items, chunks) ==
    /\ Len(chunks) = Ceil(Len(items), BATCH_SIZE)
    /\ \A c \in 1..Len(chunks) :
          /\ Len(chunks[c]) >= 1
          /\ Len(chunks[c]) <= BATCH_SIZE
          /\ c < Len(chunks) => Len(chunks[c]) = BATCH_SIZE
          /\ \A j \in 1..Len(chunks[c]) : chunks[c][j] = items[(c - 1) * BATCH_SIZE + j]
    /\ Flatten(chunks) = items

\* C7: the chunking loop yields Ceil(N / 10) contiguous chunks of sizes 1..10
\* that cover the snapshot exactly once in order (no chunk for no item).
C7_ChunkingCoversSnapshot ==
    /\ \A r \in runs : r.itemsToProcess # <<>> /\ ChunkingOK(r.itemsToProcess, r.chunks)
    /\ ChunkingOK(<<>>, Chunks(<<>>))
    /\ ChunkingOK(queue, Chunks(queue))

\* C7 witness: a run over 23 items in three chunks, the last of three items
C7_ThreeChunks ==
    \E r \in runs : Len(r.itemsToProcess) = 23 /\ Len(r.chunks) = 3 /\ Len(r.chunks[3]) = 3

\* C8: the j-th entry appended for a chunk carries the file, name and preview
\* of the chunk's j-th item and the address, coordinates, date and time of the
\* j-th returned record; after a run that ends Completed the k-th result
\* belongs to the k-th item of a snapshot.
C8_PositionalMerge ==
    [][/\ \A r \in runs : r.pc = "resolved" =>
             /\ Len(results') = Len(results) + Len(ChunkItems(r))
             /\ \A j \in 1..Len(ChunkItems(r)) :
                   LET e == results'[Len(results) + j]
                       item == ChunkItems(r)[j]
                   IN  /\ e.originalFile = item.file
                       /\ e.fileName = item.file.name
                       /\ e.previewUrl = item.preview
                       /\ j <= Len(r.batchResults) =>
                             /\ e.address = r.batchResults[j].address
                             /\ NumEq(r.batchResults[j].latitude, e.latitude)
                             /\ NumEq(r.batchResults[j].longitude, e.longitude)
                             /\ e.date = r.batchResults[j].date
                             /\ e.time = r.batchResults[j].time
       /\ status' = COMPLETED =>
             \E n \in 1..Len(snapshots') :
                /\ Len(results') <= Len(snapshots'[n])
                /\ \A k \in 1..Len(results') :
                      results'[k].previewUrl = snapshots'[n][k].preview]_vars

\* C9: a run over N items in which no call throws sets progress to
\* {0, N} at its start and to {min(10 i, N), N} after its i-th chunk, for
\* i = 1..Ceil(N / 10) in that order, and then sets status to Completed.
C9_ProgressSequence ==
    [][/\ \A r \in runs' :
             (\A q \in runs : q.itemsToProcess # r.itemsToProcess) =>
                /\ r.i = 0
                /\ progress' = [processed |-> 0, total |-> Len(r.itemsToProcess)]
       /\ \A r \in runs : r.pc = "resolved" =>
             LET N == Len(r.itemsToProcess)
                 i == r.i + 1
             IN  /\ progress' = [processed |-> Min(BATCH_SIZE * i, N), total |-> N]
                 /\ IF i = Ceil(N, BATCH_SIZE)
                    THEN status' = COMPLETED /\ runs' = runs \ {r}
                    ELSE /\ status' = status
                         /\ \E q \in runs' : q.itemsToProcess = r.itemsToProcess /\ q.i = i]_vars

\* C9 witness: a run over 23 items has ended with progress {23, 23}
C9_TwentyThreeDone ==
    /\ status = COMPLETED
    /\ progress = [processed |-> 23, total |-> 23]
    /\ runs = {}
    /\ Len(results) = 23

\* C10: without a credential the first call of a run throws before any
\* request is prepared or sent, status goes from Processing to Error and no
\* result is accumulated.
C10_MissingCredentialAborts ==
    [][~apiKey =>
          /\ results' = <<>>
          /\ \A r \in runs' : r.pc = "rejected" /\ r.i = 0 /\ status' = PROCESSING
          /\ runs # {} => (status = PROCESSING /\ status' = ERROR /\ runs' = {})]_vars

\* C10 witness: a run was started without a credential and ended in Error
C10_ErrorWithoutCredential ==
    ~apiKey /\ status = ERROR /\ snapshots # <<>> /\ results = <<>> /\ runs = {}

\* C11: when processImageBatch throws on a chunk, the run ends there: it
\* issues no further request, sets status to Error and not to Completed, and
\* leaves the entries already in results as they are.
C11_ThrowAbortsRun ==
    [][\A r \in runs : r.pc = "rejected" =>
          /\ status' = ERROR
          /\ results' = results
          /\ progress' = progress
          /\ runs' = runs \ {r}
          /\ \A q \in runs' : q.itemsToProcess # r.itemsToProcess]_vars

\* C11 witness: a run of two chunks threw on its second chunk; the ten entries
\* of its first chunk are still in results and status is Error
C11_AbortedAfterFirstChunk ==
    /\ apiKey
    /\ status = ERROR
    /\ runs = {}
    /\ Len(snapshots) = 1
    /\ Len(snapshots[1]) > BATCH_SIZE
    /\ Len(results) = BATCH_SIZE
    /\ \A k \in 1..BATCH_SIZE : results[k].previewUrl = snapshots[1][k].preview

\* C12: when the oracle call fails (generateContent throws), processImageBatch
\* returns one record per image, each with address "Error processing image",
\* coordinates 0, foundCoordinates false and empty date and time, and the
\* orchestrator merges it into an entry of the image at that position with
\* that address, coordinates 0 and empty date and time.
C12_FailedCallYieldsPlaceholders ==
    /\ [](\A r \in runs : (r.pc = "resolved" /\ r.response.kind = "throw") =>
             /\ Len(r.batchResults) = Len(ChunkFiles(r))
             /\ \A j \in 1..Len(r.batchResults) :
                   /\ r.batchResults[j].address = "Error processing image"
                   /\ r.batchResults[j].latitude = Num(0)
                   /\ r.batchResults[j].longitude = Num(0)
                   /\ r.batchResults[j].foundCoordinates = FALSE
                   /\ r.batchResults[j].date = ""
                   /\ r.batchResults[j].time = "")
    /\ [][\A r \in runs : (r.pc = "resolved" /\ r.response.kind = "throw") =>
             /\ Len(results') = Len(results) + Len(ChunkItems(r))
             /\ \A j \in 1..Len(ChunkItems(r)) :
                   LET e == results'[Len(results) + j]
                   IN  /\ e.previewUrl = ChunkItems(r)[j].preview
                       /\ e.fileName = ChunkItems(r)[j].file.name
                       /\ e.address = "Error processing image"
                       /\ e.latitude = 0
                       /\ e.longitude = 0
                       /\ e.date = ""
                       /\ e.time = ""]_vars

\* C12 witness: every call of a completed run failed and results holds one
\* placeholder entry per image of the snapshot
C12_AllPlaceholders ==
    /\ status = COMPLETED
    /\ Len(snapshots) = 1
    /\ Len(results) = Len(snapshots[1])
    /\ Len(results) > BATCH_SIZE
    /\ \A k \in 1..Len(results) :
          /\ results[k].address = "Error processing image"
          /\ results[k].previewUrl = snapshots[1][k].preview

\* the previews of the items a run in flight still holds in its snapshot
SnapshotPreviews == UNION {QueuePreviews(r.itemsToProcess) : r \in runs}

\* C13: every preview that was created and has not been released belongs to an
\* item in the queue, in the snapshot of a run in flight, or in results.
C13_NoPreviewLeaked ==
    \A p \in 1..nextId :
       revoked[p] = 0 =>
          p \in QueuePreviews(queue) \cup SnapshotPreviews \cup ResultPreviews(results)

\* C14: no preview is released more than once, and no item of the queue and
\* no entry of results has a released preview.
C14_ReleasedOnceAndGone ==
    \A p \in DOMAIN revoked :
       /\ revoked[p] <= 1
       /\ revoked[p] >= 1 => p \notin QueuePreviews(queue) \cup ResultPreviews(results)

\* C14 witness: previews were released by a removal from the queue and by a
\* clearing of results, and both the queue and results hold live items again
C14_ReleasedBothWays ==
    /\ removes > 0
    /\ \E p \in DOMAIN revoked : revoked[p] = 1 /\ \E n \in 1..Len(snapshots) : p \in QueuePreviews(snapshots[n])
    /\ queue # <<>>
    /\ results # <<>>

\* C15: while a run is in flight, results changes only by that run appending
\* the entries of a chunk: nothing is removed or replaced.
C15_ResultsOnlyGrowDuringRun ==
    [][(runs # {} /\ results' # results) =>
          \E r \in runs :
             /\ r.pc = "resolved"
             /\ Cardinality(runs) = 1
             /\ Len(results') = Len(results) + Len(ChunkItems(r))
             /\ SubSeq(results', 1, Len(results)) = results]_vars

\* C16: whenever status is Completed or Error, handleClearResults is
\* available to the user (its button is rendered), also when results is empty.
C16_ClearAvailableAfterRun ==
    (status \in {COMPLETED, ERROR} /\ Quiescent) => ResultsShown

\* C17: handleProcessQueue called with an empty queue changes nothing: status,
\* results, progress and queue stay as they are and no run or request starts.
C17_EmptyQueueStartIsNoOp ==
    [][(lastCall'.op = "handleProcessQueue" /\ Len(queue) = 0) =>
          UNCHANGED <<status, results, progress, queue, runs, snapshots, revoked>>]_vars

\* C17 witness: the handler was called with an empty queue while the results
\* of a completed run were shown, and they still are
C17_CalledWithEmptyQueue ==
    /\ lastCall.op = "handleProcessQueue"
    /\ queue = <<>>
    /\ status = COMPLETED
    /\ results # <<>>
    /\ progress.total > 0

\* the entries a run appends for the chunk in progress belong, in order, to
\* the items of its snapshot at positions BATCH_SIZE * i + 1 ..
AppendsOwnChunk(r) ==
    LET first == BATCH_SIZE * r.i
        n == Min(BATCH_SIZE, Len(r.itemsToProcess) - first)
    IN  /\ Len(results') = Len(results) + n
        /\ \A j \in 1..n :
              /\ results'[Len(results) + j].previewUrl = r.itemsToProcess[first + j].preview
              /\ results'[Len(results) + j].originalFile = r.itemsToProcess[first + j].file

\* C18: a run works on the queue as it was when handleProcessQueue was called:
\* its snapshot and chunks never change afterwards, whatever is added to,
\* removed from or cleared from the queue, and the entries it appends and the
\* total it reports are those of the snapshot.
C18_RunUsesSnapshot ==
    [][/\ \A q \in runs' :
             \/ \E r \in runs : r.itemsToProcess = q.itemsToProcess /\ r.chunks = q.chunks
             \/ /\ lastCall'.op = "handleProcessQueue"
                /\ q.itemsToProcess = queue
                /\ Flatten(q.chunks) = queue
       /\ \A r \in runs :
             /\ r.pc = "resolved" => (AppendsOwnChunk(r) /\ progress'.total = Len(r.itemsToProcess))
             /\ r.pc \in {"encode", "request"} =>
                   \E q \in runs' : /\ q.itemsToProcess = r.itemsToProcess
                                    /\ q.chunks = r.chunks
                                    /\ q.i = r.i]_vars

\* C18 witness: a chunk of a run is about to be merged while the queue holds
\* files that were added after the run started
C18_QueueRefilledDuringRun ==
    /\ queue # <<>>
    /\ \E r \in runs : r.pc = "resolved" /\ Len(queue) # Len(r.itemsToProcess)

\* C19: handleRemoveFromQueue(id) removes exactly the queue item with that id,
\* keeps the other items in their order, releases that item's preview and no
\* other, and leaves results, status and progress unchanged; with an id that
\* no queue item has it changes nothing and releases nothing.
C19_RemoveExactlyOne ==
    [][lastCall'.op = "handleRemoveFromQueue" =>
          LET id == lastCall'.id
              K == {k \in 1..Len(queue) : queue[k].id = id}
          IN  /\ UNCHANGED <<results, status, progress, runs, snapshots>>
              /\ IF K = {}
                 THEN queue' = queue /\ revoked' = revoked
                 ELSE \E k \in K :
                         /\ K = {k}
                         /\ queue' = SubSeq(queue, 1, k - 1) \o SubSeq(queue, k + 1, Len(queue))
                         /\ \A p \in DOMAIN revoked :
                               revoked'[p] = IF p = queue[k].preview
                                             THEN revoked[p] + 1 ELSE revoked[p]]_vars

\* C19 witness: the second item of the queue was just removed: its neighbours
\* are adjacent now and its preview is released
C19_SecondItemRemoved ==
    /\ lastCall.op = "handleRemoveFromQueue"
    /\ Len(queue) >= 2
    /\ lastCall.id = queue[1].id + 1
    /\ queue[2].id = queue[1].id + 2
    /\ revoked[QueueItem(lastCall.id).preview] = 1
    /\ revoked[queue[1].preview] = 0
    /\ revoked[queue[2].preview] = 0

\* C20: handleClearQueue releases one preview for each item of the queue and
\* no other (Len(queue) releases), leaves the queue empty and leaves results,
\* status and progress unchanged.
C20_ClearQueueReleasesAll ==
    [][lastCall'.op = "handleClearQueue" =>
          /\ queue' = <<>>
          /\ \A p \in DOMAIN revoked :
                revoked'[p] = IF \E k \in 1..Len(queue) : queue[k].preview = p
                              THEN revoked[p] + 1 ELSE revoked[p]
          /\ Cardinality({p \in DOMAIN revoked : revoked'[p] # revoked[p]}) = Len(queue)
          /\ UNCHANGED <<results, status, progress, runs, snapshots>>]_vars

\* C20 witness: the queue was just cleared while results of a run are shown;
\* previews of the queue are released, those of results are not
C20_QueueClearedBesideResults ==
    /\ lastCall.op = "handleClearQueue"
    /\ queue = <<>>
    /\ results # <<>>
    /\ \A k \in 1..Len(results) : revoked[results[k].previewUrl] = 0
    /\ \E p \in DOMAIN revoked : revoked[p] = 1

\* C21: handleClearResults empties results, releases the preview of every
\* entry that was in results, each exactly once, sets status to Idle and
\* progress to {0, 0}, and leaves the queue and its previews unchanged.
C21_ClearResultsResetsAll ==
    [][lastCall'.op = "handleClearResults" =>
          /\ results' = <<>>
          /\ status' = IDLE
          /\ progress' = [processed |-> 0, total |-> 0]
          /\ queue' = queue
          /\ \A p \in DOMAIN revoked :
                IF \E k \in 1..Len(results) : results[k].previewUrl = p
                THEN revoked[p] = 0 /\ revoked'[p] = 1
                ELSE revoked'[p] = revoked[p]
          /\ \A k \in 1..Len(queue) : revoked'[queue[k].preview] = 0
          /\ \A j, k \in 1..Len(results) :
                results[j].previewUrl = results[k].previewUrl => j = k]_vars

\* C21 witness: results of a run were just cleared while files wait in the
\* queue: the previews of the run's items are released, those of the queue not
C21_ResultsClearedBesideQueue ==
    /\ lastCall.op = "handleClearResults"
    /\ results = <<>>
    /\ status = IDLE
    /\ progress = [processed |-> 0, total |-> 0]
    /\ queue # <<>>
    /\ \A k \in 1..Len(queue) : revoked[queue[k].preview] = 0
    /\ \E k \in 1..Len(snapshots[1]) : revoked[snapshots[1][k].preview] = 1

\* C22: progress.processed never exceeds progress.total, and a step taken
\* while status is Processing neither lowers progress.processed nor changes
\* progress.total.
C22_ProgressMonotonic ==
    /\ [](progress.processed <= progress.total)
    /\ [][status = PROCESSING =>
             /\ progress'.processed >= progress.processed
             /\ progress'.total = progress.total]_vars

\* String.prototype.split on a one-character separator
RECURSIVE Split(_, _)
Split(text, sep) ==
    LET at == {k \in 1..Len(text) : text[k] = sep}
    IN  IF at = {} THEN <<text>>
        ELSE LET k == CHOOSE j \in at : \A i \in at : j <= i
             IN  <<SubSeq(text, 1, k - 1)>> \o Split(SubSeq(text, k + 1, Len(text)), sep)

\* the coordinate is null or the placeholder 0
Sentinel(x) == x = Null \/ x[1] = 0

\* the exported text has one line per row behind the header, of six fields each
Intact(text, n) ==
    /\ Len(Split(text, NL)) = n + 1
    /\ \A k \in 1..(n + 1) : Len(Split(Split(text, NL)[k], TAB)) = 6

\* C23: a coordinate that is 0 or null is never presented as a position: the
\* table shows '--' for it, the clipboard export writes the empty string for
\* it, and the map has a marker only for rows whose latitude and longitude are
\* both neither 0 nor null.
C23_SentinelNeverShown ==
    /\ table # <<>> =>
          /\ Len(table) = Len(data)
          /\ \A k \in 1..Len(table) :
                /\ Sentinel(sortedData[k].latitude) => table[k].latitude = <<"-", "-">>
                /\ Sentinel(sortedData[k].longitude) => table[k].longitude = <<"-", "-">>
    /\ clipboard # <<>> =>
          /\ clipboard = Join(<<Join(headers, TAB)>> \o
                              [k \in 1..Len(data) |-> Join(TsvCells(sortedData[k]), TAB)], NL)
          /\ \A k \in 1..Len(data) :
                /\ Sentinel(sortedData[k].latitude) => TsvCells(sortedData[k])[3] = <<>>
                /\ Sentinel(sortedData[k].longitude) => TsvCells(sortedData[k])[4] = <<>>
          /\ Intact(clipboard, Len(data)) =>
                \A k \in 1..Len(data) :
                   LET fields == Split(Split(clipboard, NL)[k + 1], TAB)
                   IN  /\ Sentinel(sortedData[k].latitude) => fields[3] = <<>>
                       /\ Sentinel(sortedData[k].longitude) => fields[4] = <<>>
    /\ Len(markers) <= Cardinality({k \in 1..Len(data) :
                                       ~Sentinel(data[k].latitude) /\ ~Sentinel(data[k].longitude)})
    /\ \A m \in 1..Len(markers) :
          /\ markers[m].position[1] # 0
          /\ markers[m].position[2] # 0
          /\ \E k \in 1..Len(data) :
                /\ data[k].latitude = Num(markers[m].position[1])
                /\ data[k].longitude = Num(markers[m].position[2])
                /\ data[k].fileName = markers[m].fileName

\* C23 witness: table, export and map are made for two rows of which one has
\* the longitude 0 and the other a position; the map has the one marker
C23_OneOfTwoRowsPlaced ==
    /\ Len(data) = 2
    /\ Len(table) = 2
    /\ Intact(clipboard, 2)
    /\ Len(markers) = 1
    /\ \E j, k \in 1..2 :
          /\ data[j].longitude = Num(0)
          /\ ~Sentinel(data[j].latitude)
          /\ ~Sentinel(data[k].latitude) /\ ~Sentinel(data[k].longitude)

\* C24: parsing the exported text back (split on newline, then on tab) gives,
\* for every row in the order of the table, its fileName, address, date and
\* time exactly and its coordinates with the hemisphere of their sign.
C24_ExportRoundTrip ==
    clipboard # <<>> =>
       LET lines == Split(clipboard, NL)
       IN  /\ Len(lines) = Len(data) + 1
           /\ \A k \in 1..Len(data) :
                 LET fields == Split(lines[k + 1], TAB)
                     row == sortedData[k]
                 IN  /\ Len(fields) = 6
                     /\ fields[1] = row.fileName
                     /\ fields[2] = row.address
                     /\ fields[5] = row.date
                     /\ fields[6] = row.time
                     /\ IF Sentinel(row.latitude) THEN fields[3] = <<>>
                        ELSE /\ fields[3] # <<>>
                             /\ fields[3][Len(fields[3])] = IF row.latitude[1] > 0 THEN "N" ELSE "S"
                     /\ IF Sentinel(row.longitude) THEN fields[4] = <<>>
                        ELSE /\ fields[4] # <<>>
                             /\ fields[4][Len(fields[4])] = IF row.longitude[1] > 0 THEN "E" ELSE "W"

\* C25: the exported text is the header line of the six fields File Name,
\* Address, Latitude, Longitude, Date, Time followed by one line per row, each
\* of six tab-separated fields, whatever strings the rows hold.
C25_ExportShape ==
    clipboard # <<>> =>
       LET lines == Split(clipboard, NL)
       IN  /\ Len(lines) = Len(data) + 1
           /\ Split(lines[1], TAB) =
                 << <<"File Name">>, <<"Address">>, <<"Latitude">>, <<"Longitude">>, <<"Date">>, <<"Time">> >>
           /\ \A k \in 2..Len(lines) : Len(Split(lines[k], TAB)) = 6

\* C26: every started run terminates when every call of processImageBatch
\* returns or throws: a run over N items makes at most Ceil(N / 10) calls, the
\* step that ends it sets status to Completed or to Error and no other step of
\* it sets status, every run ends, and status does not stay Processing.
C26_RunTerminates ==
    /\ [](\A r \in runs : r.i + 1 <= Ceil(Len(r.itemsToProcess), BATCH_SIZE))
    /\ [][\A r \in runs :
             LET continues == \E q \in runs' : q.itemsToProcess = r.itemsToProcess
             IN  /\ ~Pending(r) => continues
                 /\ (Pending(r) /\ continues) =>
                       /\ status' = status
                       /\ \E q \in runs' : q.itemsToProcess = r.itemsToProcess /\ q.i = r.i + 1
                 /\ (Pending(r) /\ ~continues) => status' \in {COMPLETED, ERROR}]_vars
    /\ \A n \in 1..(MaxFiles \div BATCH_SIZE) :
          [](Len(snapshots) >= n =>
             <>(Len(snapshots) >= n /\ \A r \in runs : r.itemsToProcess # snapshots[n]))
    /\ [](status = PROCESSING => <>(status # PROCESSING))

\* C26 witness: two runs were started and both have ended, the later one by a
\* throw after its calls were made
C26_BothRunsEnded ==
    /\ Len(snapshots) = 2
    /\ runs = {}
    /\ status = ERROR
    /\ faults > 0

\* C27: a start on a non-empty queue of N items sets status to Processing,
\* progress to {0, N}, results to empty and the queue to empty, and this is
\* the state until the run issues its first request; no item is in the
\* snapshots of two starts.
C27_StartStateBeforeFirstRequest ==
    /\ [][(lastCall'.op = "handleProcessQueue" /\ Len(queue) > 0) =>
             /\ status' = PROCESSING
             /\ progress' = [processed |-> 0, total |-> Len(queue)]
             /\ results' = <<>>
             /\ queue' = <<>>
             /\ \E r \in runs' \ runs :
                   r.itemsToProcess = queue /\ r.i = 0 /\ r.pc # "request"]_vars
    /\ [](\A m, n \in 1..Len(snapshots) :
             m # n => \A j \in 1..Len(snapshots[m]) : \A k \in 1..Len(snapshots[n]) :
                         snapshots[m][j].id # snapshots[n][k].id)
    /\ [](\A r \in runs : (r.i = 0 /\ r.pc = "encode") =>
             /\ status = PROCESSING
             /\ progress = [processed |-> 0, total |-> Len(r.itemsToProcess)]
             /\ results = <<>>
             /\ queue = <<>>)

\* C28: when a run ends, in Completed or in Error, every item of its snapshot
\* has an entry in results or is in the queue.
C28_NoItemLost ==
    [][\A r \in runs :
          (Pending(r) /\ \A q \in runs' : q.itemsToProcess # r.itemsToProcess) =>
             \A j \in 1..Len(r.itemsToProcess) :
                \/ \E k \in 1..Len(results') : results'[k].previewUrl = r.itemsToProcess[j].preview
                \/ \E k \in 1..Len(queue') : queue'[k].id = r.itemsToProcess[j].id]_vars

\* C29: the merge of a chunk for which processImageBatch returned appends one
\* entry per item of the chunk, whatever the number of records: the entry of an
\* item with no record at its position has address "Processing Error",
\* coordinates 0 and empty date and time, and a record behind the chunk's
\* length leaves no entry.
C29_OneEntryPerItem ==
    [][\A r \in runs : r.pc = "resolved" =>
          /\ Len(results') = Len(results) + Len(ChunkItems(r))
          /\ SubSeq(results', 1, Len(results)) = results
          /\ \A j \in 1..Len(ChunkItems(r)) :
                LET e == results'[Len(results) + j]
                IN  /\ e.previewUrl = ChunkItems(r)[j].preview
                    /\ e.originalFile = ChunkItems(r)[j].file
                    /\ j > Len(r.batchResults) =>
                          /\ e.address = "Processing Error"
                          /\ e.latitude = 0
                          /\ e.longitude = 0
                          /\ e.date = ""
                          /\ e.time = ""]_vars

\* C29 witness: a run of two chunks has ended after the client returned one
\* record too few for the second chunk: the last entry is the default one
C29_ShortAnswerMerged ==
    /\ status = COMPLETED
    /\ Len(snapshots) = 1
    /\ faults = 1
    /\ Len(results) = Len(snapshots[1])
    /\ results[1].address = "addr"
    /\ results[Len(results) - 1].address = "addr"
    /\ results[Len(results)].address = "Processing Error"
    /\ results[Len(results)].previewUrl = snapshots[1][Len(results)].preview

\* C30: in every reachable state the number of entries in results equals
\* progress.processed.
C30_ResultsMatchProcessed ==
    Len(results) = progress.processed

\* C31: whenever status is Completed, results holds exactly one entry for
\* every item of the snapshot of the run that completed, in its order, and
\* results.length = progress.total = progress.processed.
C31_CompletedMeansAllMerged ==
    status = COMPLETED =>
       /\ Len(results) = progress.total
       /\ progress.total = progress.processed
       /\ \E n \in 1..Len(snapshots) :
             /\ Len(snapshots[n]) = Len(results)
             /\ \A k \in 1..Len(results) : results[k].previewUrl = snapshots[n][k].preview

\* C32: whenever status is Processing the queue is empty, and no step taken
\* while status is Processing adds a file to it.
C32_QueueEmptyWhileProcessing ==
    /\ [](status = PROCESSING => queue = <<>>)
    /\ [][status = PROCESSING => queue' = queue]_vars

\* C32 witness: a second run was started on files selected while the first was
\* still in flight; status is Processing and the queue is empty again
C32_SecondRunBesideFirst ==
    /\ status = PROCESSING
    /\ queue = <<>>
    /\ Cardinality(runs) = 2
    /\ Len(snapshots) = 2
    /\ nextId = Len(snapshots[1]) + Len(snapshots[2])
====
